---- MODULE Spec2Model ----
(***************************************************************************)
(* sklauncher: the entry catalog (scan of desktop entries and of $PATH,    *)
(* merged with the history cache) and the launch dispatcher.               *)
(*                                                                         *)
(* An IndexMap<String, Entry> is a sequence of [k, v] pairs with distinct  *)
(* keys, in insertion order.  An Option<T> is <<>> (None) or <<v>> (Some). *)
(* A function that can panic returns a record with a panic flag.          *)
(***************************************************************************)
EXTENDS Integers, Sequences, FiniteSets, TLC

VARIABLES
    fs,          \* the files of the scanned directories: path -> [kind, mtime, content]
    unreadable,  \* the directories that exist but cannot be listed
    PATH,        \* the value of $PATH: a sequence of directories
    cache,       \* history.toml: [exists, valid, doc]
    pc,          \* per launcher instance: "start", "select", "spawn" or "exit"
    entries,     \* per instance: main's `entries`, the catalog in memory
    parsed,      \* per instance: the descriptor files ini-parsed by the last build
    entry,       \* per instance: execute's cloned `entry` (None before a launch)
    cmd,         \* per instance: the command string handed to _exec (None before)
    exitCode,    \* per instance: the status the last run ended with
    items,       \* per instance: the entries sent to the selection, in order
    shell,       \* per instance: what _exec was called with (None before):
                 \* [options, argv, command, line]
    envSteps,    \* number of environment changes so far (bounded)
    recorded,    \* history: path -> the highest usage count the history file held for it
    streak       \* history: the current run of launches of one path with no
                 \* environment change in between: [path, init, n]

vars == <<fs, unreadable, PATH, cache, pc, entries, parsed, entry, cmd,
          exitCode, items, shell, envSteps, recorded, streak>>

----------------------------------------------------------------------------
(* Bounds of the model *)

MaxCount == 2       \* a launch is modelled while the counts of the catalog sum to less
MaxEnvSteps == 2    \* environment changes per behaviour

----------------------------------------------------------------------------
(* Option and panics *)

None == <<>>
Some(v) == <<v>>

----------------------------------------------------------------------------
(* The scanned world: directories, files, file contents *)

\* XDG "applications" directories in priority order (data home, then data
\* dirs); "/nonexistent" is a candidate that is no directory
AppDirCandidates == <<"/app", "/nonexistent", "/sys">>

\* the two values $PATH takes: without and with a directory that is also an
\* applications directory
PathValues == { <<"/bin", "/nonexistent">>, <<"/bin", "/nonexistent", "/app">> }

Dirs == {"/app", "/app/sub", "/bin", "/sys"}

DesktopFiles == {"/app/a.desktop", "/app/sub/b.desktop", "/sys/c.desktop"}
PlainFiles == {"/app/tool", "/bin/x"}
Files == DesktopFiles \cup PlainFiles

\* Path::is_dir
IsDir(p) == p \in Dirs

\* the order in which read_dir lists a directory (unsorted)
DirListing(d) ==
    CASE d = "/app"     -> <<"/app/tool", "/app/sub", "/app/a.desktop">>
      [] d = "/app/sub" -> <<"/app/sub/b.desktop">>
      [] d = "/bin"     -> <<"/bin/x">>
      [] d = "/sys"     -> <<"/sys/c.desktop">>
      [] OTHER          -> <<>>

\* Path::file_name
FileName(p) ==
    CASE p = "/app/a.desktop"     -> "a.desktop"
      [] p = "/app/sub/b.desktop" -> "b.desktop"
      [] p = "/sys/c.desktop"     -> "c.desktop"
      [] p = "/app/tool"          -> "tool"
      [] p = "/bin/x"             -> "x"
      [] OTHER                    -> "sub"

\* Path::extension
Extension(p) == IF p \in DesktopFiles THEN Some("desktop") ELSE None

\* the bytes of ".desktop"
DotDesktop == <<46, 100, 101, 115, 107, 116, 111, 112>>

\* the UTF-8 bytes of the names that occur, for String::cmp
Bytes(s) ==
    CASE s = "Apple"     -> <<65, 112, 112, 108, 101>>
      [] s = "Zed"       -> <<90, 101, 100>>
      [] s = "mid"       -> <<109, 105, 100>>
      [] s = "a.desktop" -> <<97>> \o DotDesktop
      [] s = "b.desktop" -> <<98>> \o DotDesktop
      [] s = "c.desktop" -> <<99>> \o DotDesktop
      [] s = "tool"      -> <<116, 111, 111, 108>>
      [] s = "x"         -> <<120>>
      [] OTHER           -> <<>>

\* contents of a descriptor file, as ini::Ini::load_from_file sees them:
\* whether the file parses, whether it has a [Desktop Entry] section, and the
\* keys of that section
IniValid1 == [parses |-> TRUE, section |-> TRUE,
              keys |-> [Name |-> "Zed", Exec |-> "zed %f"]]
IniValid2 == [parses |-> TRUE, section |-> TRUE,
              keys |-> [Name |-> "Apple", Exec |-> "apple --edit %u",
                        GenericName |-> "Editor", Comment |-> "Edit text",
                        Terminal |-> "true"]]
IniValid3 == [parses |-> TRUE, section |-> TRUE,
              keys |-> [Name |-> "mid", Exec |-> "mid %f --out=%u",
                        Terminal |-> "false"]]
IniNoExec == [parses |-> TRUE, section |-> TRUE,
              keys |-> [Name |-> "Zed", Terminal |-> "maybe"]]
IniNoName == [parses |-> TRUE, section |-> TRUE,
              keys |-> [Exec |-> "zed %f"]]
IniNoSection == [parses |-> TRUE, section |-> FALSE,
                 keys |-> [Name |-> "Zed", Exec |-> "zed %f"]]
IniUnparsable == [parses |-> FALSE, section |-> FALSE, keys |-> [Name |-> "Zed"]]
IniBadTerminal == [parses |-> TRUE, section |-> TRUE,
                   keys |-> [Name |-> "Zed", Exec |-> "zed %f",
                             Terminal |-> "maybe"]]
IniEmpty == [parses |-> TRUE, section |-> FALSE, keys |-> [Name |-> ""]]

ValidContents == {IniValid1, IniValid2, IniValid3}
InvalidContents == {IniNoExec, IniNoName, IniNoSection, IniUnparsable}

Absent == [kind |-> "absent", mtime |-> 0, content |-> IniEmpty]
\* a symbolic link whose target is missing
Dangling == [kind |-> "dangling", mtime |-> 0, content |-> IniEmpty]
Regular(m, c) == [kind |-> "file", mtime |-> m, content |-> c]

\* what the environment writes into each file: <<mtime, contents>>
Writes(f) ==
    CASE f = "/app/a.desktop" ->
             {<<1, IniValid1>>, <<1, IniValid2>>, <<2, IniValid2>>,
              <<2, IniNoExec>>, <<2, IniNoName>>, <<2, IniNoSection>>,
              <<2, IniUnparsable>>, <<2, IniBadTerminal>>}
      [] f = "/app/sub/b.desktop" -> {<<1, IniValid2>>}
      [] f = "/sys/c.desktop"     -> {<<1, IniValid3>>}
      [] OTHER                    -> {<<1, IniEmpty>>}

----------------------------------------------------------------------------
(* Entry and IndexMap<String, Entry> *)

\* Entry::new
EntryNew ==
    [path |-> "", mtime |-> None, name |-> "", exec |-> "",
     generic_name |-> None, comment |-> None, terminal |-> FALSE,
     desktop |-> FALSE, count |-> 0]

EmptyMap == <<>>

Keys(m) == { m[i].k : i \in 1..Len(m) }

IndexOf(m, key) == CHOOSE i \in 1..Len(m) : m[i].k = key

\* IndexMap::contains_key
ContainsKey(m, key) == \E i \in 1..Len(m) : m[i].k = key

\* IndexMap::get
Get(m, key) == IF ContainsKey(m, key) THEN Some(m[IndexOf(m, key)].v) ELSE None

\* an insert that keeps the value a present key has
InsertKeepsOld(m, key, val) ==
    IF ContainsKey(m, key) THEN m
    ELSE Append(m, [k |-> key, v |-> val])

\* IndexMap::insert: a present key keeps its position and takes the new value,
\* a new key goes last
Insert(m, key, val) ==
    IF ContainsKey(m, key)
    THEN [m EXCEPT ![IndexOf(m, key)] = [k |-> key, v |-> val]]
    ELSE Append(m, [k |-> key, v |-> val])

\* IndexMap::extend: insert every pair of `other`, in order
RECURSIVE Extend(_, _)
Extend(m, other) ==
    IF other = <<>> THEN m
    ELSE Extend(Insert(m, Head(other).k, Head(other).v), Tail(other))

\* <[u8] as Ord>::cmp(a, b) = Less
RECURSIVE BytesLess(_, _)
BytesLess(a, b) ==
    IF b = <<>> THEN FALSE
    ELSE IF a = <<>> THEN TRUE
    ELSE IF Head(a) # Head(b) THEN Head(a) < Head(b)
    ELSE BytesLess(Tail(a), Tail(b))

\* entry_cmp(..) = Less: by name only, case-sensitive
entry_cmp_less(v1, v2) == BytesLess(Bytes(v1.name), Bytes(v2.name))

\* one step of a stable sort: put pair e after the last pair that is not
\* greater than it
RECURSIVE InsertSorted(_, _)
InsertSorted(sorted, e) ==
    IF sorted = <<>> THEN <<e>>
    ELSE IF entry_cmp_less(e.v, sorted[Len(sorted)].v)
         THEN Append(InsertSorted(SubSeq(sorted, 1, Len(sorted) - 1), e),
                     sorted[Len(sorted)])
         ELSE Append(sorted, e)

\* IndexMap::sort_by(entry_cmp): a stable sort
RECURSIVE SortFrom(_, _)
SortFrom(m, acc) ==
    IF m = <<>> THEN acc ELSE SortFrom(Tail(m), InsertSorted(acc, Head(m)))

SortByName(m) == SortFrom(m, <<>>)

----------------------------------------------------------------------------
(* history.toml *)

NoFile == [exists |-> FALSE, valid |-> FALSE, doc |-> <<>>]
BrokenFile == [exists |-> TRUE, valid |-> FALSE, doc |-> <<>>]
TomlFile(d) == [exists |-> TRUE, valid |-> TRUE, doc |-> d]

\* an empty function, the table with no key
NoKeys == [x \in {} |-> 0]

OptKey(key, opt) == IF opt = None THEN NoKeys ELSE (key :> opt[1])

\* serde Serialize for Entry through toml: a table of the fields; a field that
\* is None is left out
EntryToToml(e) ==
    [path |-> e.path, name |-> e.name, exec |-> e.exec,
     terminal |-> e.terminal, desktop |-> e.desktop, count |-> e.count]
      @@ OptKey("mtime", e.mtime)
      @@ OptKey("generic_name", e.generic_name)
      @@ OptKey("comment", e.comment)

OptField(t, key) == IF key \in DOMAIN t THEN Some(t[key]) ELSE None

\* serde Deserialize for Entry: a missing Option field is None
EntryFromToml(t) ==
    [path |-> t.path, mtime |-> OptField(t, "mtime"), name |-> t.name,
     exec |-> t.exec, generic_name |-> OptField(t, "generic_name"),
     comment |-> OptField(t, "comment"), terminal |-> t.terminal,
     desktop |-> t.desktop, count |-> t.count]

\* toml::to_string of the whole map: one table per key, in map order
ToToml(m) == [i \in 1..Len(m) |-> [k |-> m[i].k, t |-> EntryToToml(m[i].v)]]

\* toml::from_str into IndexMap<String, Entry>
FromToml(d) == [i \in 1..Len(d) |-> [k |-> d[i].k, v |-> EntryFromToml(d[i].t)]]

\* get_hist_file: an absent history file is created empty
get_hist_file(file) == IF file.exists THEN file ELSE TomlFile(<<>>)

\* a load that takes a history file that does not parse for an empty one
load_history_lenient(file) ==
    [panic |-> FALSE,
     map |-> IF get_hist_file(file).valid
             THEN FromToml(get_hist_file(file).doc) ELSE EmptyMap,
     file |-> get_hist_file(file)]

\* load_history: [panic, map, file]; a file that does not parse is fatal
load_history(file) ==
    IF get_hist_file(file).valid
    THEN [panic |-> FALSE, map |-> FromToml(get_hist_file(file).doc),
          file |-> get_hist_file(file)]
    ELSE [panic |-> TRUE, map |-> EmptyMap, file |-> get_hist_file(file)]

\* save_history: the file is truncated and rewritten from the whole map
save_history(m) == TomlFile(ToToml(m))

----------------------------------------------------------------------------
(* entry.rs: the scanners *)

\* what read_dir yields now: the listed paths that exist
Listed(dir, fsys) ==
    SelectSeq(DirListing(dir), LAMBDA p : IsDir(p) \/ fsys[p].kind # "absent")

\* Path::is_file: a regular file (a dangling link is none)
IsFile(p, fsys) == p \in Files /\ fsys[p].kind = "file"

\* get_mtime: [panic, val]; fs::metadata fails on a dangling link and the
\* expect panics
get_mtime(file, fsys) ==
    IF fsys[file].kind = "file"
    THEN [panic |-> FALSE, val |-> fsys[file].mtime]
    ELSE [panic |-> TRUE, val |-> 0]

\* str::parse::<LenientBool>: [ok, val]
LenientBoolParse(s) ==
    IF s \in {"true", "t", "yes", "y", "1"} THEN [ok |-> TRUE, val |-> TRUE]
    ELSE IF s \in {"false", "f", "no", "n", "0"} THEN [ok |-> TRUE, val |-> FALSE]
    ELSE [ok |-> FALSE, val |-> FALSE]

\* a lookup that yields an empty string for a missing key
SectionGetOrDefault(keys, key) ==
    IF key \in DOMAIN keys THEN Some(keys[key]) ELSE Some("")

\* Properties::get
SectionGet(keys, key) == IF key \in DOMAIN keys THEN Some(keys[key]) ELSE None

FilePanic == [panic |-> TRUE, entry |-> None, parsed |-> FALSE]
FileResult(e, p) == [panic |-> FALSE, entry |-> e, parsed |-> p]

\* load_desktop_entry_file, from the ini load on: [panic, entry, parsed]
ParseDesktopEntry(file, mtime, count, conf) ==
    IF ~conf.parses THEN FileResult(None, TRUE)
    ELSE IF ~conf.section THEN FileResult(None, TRUE)
    ELSE IF SectionGet(conf.keys, "Name") = None THEN FileResult(None, TRUE)
    ELSE IF SectionGet(conf.keys, "Exec") = None THEN FileResult(None, TRUE)
    ELSE LET terminal == SectionGet(conf.keys, "Terminal")
             e == [EntryNew EXCEPT
                     !.desktop = TRUE,
                     !.path = file,
                     !.count = count,
                     !.mtime = Some(mtime),
                     !.name = conf.keys["Name"],
                     !.exec = conf.keys["Exec"],
                     !.generic_name = SectionGet(conf.keys, "GenericName"),
                     !.comment = SectionGet(conf.keys, "Comment")]
         IN IF terminal = None THEN FileResult(Some(e), TRUE)
            ELSE IF ~LenientBoolParse(terminal[1]).ok THEN FilePanic
            ELSE FileResult(
                   Some([e EXCEPT !.terminal = LenientBoolParse(terminal[1]).val]),
                   TRUE)

\* a loader that parses every file, whatever the history holds
CachedOrParsedAlways(file, mt, cached, conf) ==
    IF mt.panic THEN FilePanic
    ELSE IF cached = None THEN ParseDesktopEntry(file, mt.val, 0, conf)
    ELSE IF cached[1].mtime = None THEN FilePanic
    ELSE ParseDesktopEntry(file, mt.val, cached[1].count, conf)

\* a loader that starts a changed file's count at 0
CachedOrParsedFromZero(file, mt, cached, conf) ==
    IF mt.panic THEN FilePanic
    ELSE IF cached = None THEN ParseDesktopEntry(file, mt.val, 0, conf)
    ELSE IF cached[1].mtime = None THEN FilePanic
    ELSE IF cached[1].mtime[1] = mt.val THEN FileResult(Some(cached[1]), FALSE)
    ELSE ParseDesktopEntry(file, mt.val, 0, conf)

\* load_desktop_entry_file after get_mtime and the lookup of the path in the
\* history: the cached entry is returned as it is when its mtime is the
\* file's; unwrapping the mtime of a cached entry that has none panics
CachedOrParsed(file, mt, cached, conf) ==
    IF mt.panic THEN FilePanic
    ELSE IF cached = None THEN ParseDesktopEntry(file, mt.val, 0, conf)
    ELSE IF cached[1].mtime = None THEN FilePanic
    ELSE IF cached[1].mtime[1] = mt.val THEN FileResult(Some(cached[1]), FALSE)
    ELSE ParseDesktopEntry(file, mt.val, cached[1].count, conf)

\* load_desktop_entry_file: [panic, entry, parsed]
load_desktop_entry_file(file, history, fsys) ==
    CachedOrParsed(file, get_mtime(file, fsys), Get(history, file),
                   fsys[file].content)

ScanPanic(ps) == [panic |-> TRUE, map |-> EmptyMap, parsed |-> ps]
ScanResult(m, ps) == [panic |-> FALSE, map |-> m, parsed |-> ps]

\* entries.extend(sub) with the result of a scanned directory; its panic
\* unwinds
AbsorbDir(acc, sub) ==
    IF sub.panic THEN ScanPanic(acc.parsed \cup sub.parsed)
    ELSE ScanResult(Extend(acc.map, sub.map), acc.parsed \cup sub.parsed)

\* the match on load_desktop_entry_file's result: Some is inserted under the
\* file's path, None is skipped, a panic unwinds
AbsorbFile(acc, path, r) ==
    IF r.panic THEN ScanPanic(acc.parsed)
    ELSE IF r.entry = None
    THEN ScanResult(acc.map, acc.parsed \cup (IF r.parsed THEN {path} ELSE {}))
    ELSE ScanResult(Insert(acc.map, path, r.entry[1]),
                    acc.parsed \cup (IF r.parsed THEN {path} ELSE {}))

RECURSIVE load_desktop_entry_dir(_, _, _, _)
RECURSIVE DesktopDirLoop(_, _, _, _, _)

\* the body of the loop of load_desktop_entry_dir for one listed path
DesktopDirStep(acc, path, history, fsys, unread) ==
    IF IsDir(path)
    THEN AbsorbDir(acc, load_desktop_entry_dir(path, history, fsys, unread))
    ELSE IF Extension(path) # Some("desktop") THEN acc
    ELSE AbsorbFile(acc, path, load_desktop_entry_file(path, history, fsys))

\* the loop of load_desktop_entry_dir over what is left of the listing, with
\* the `entries` collected so far in acc
DesktopDirLoop(listing, acc, history, fsys, unread) ==
    IF listing = <<>> \/ acc.panic THEN acc
    ELSE DesktopDirLoop(Tail(listing),
           DesktopDirStep(acc, Head(listing), history, fsys, unread),
           history, fsys, unread)

\* load_desktop_entry_dir: [panic, map, parsed]; read_dir().unwrap() panics on
\* a directory that cannot be listed
load_desktop_entry_dir(dir, history, fsys, unread) ==
    IF dir \in unread THEN ScanPanic({})
    ELSE DesktopDirLoop(Listed(dir, fsys), ScanResult(EmptyMap, {}),
                        history, fsys, unread)

\* get_app_dirs: the candidates that are directories
get_app_dirs == SelectSeq(AppDirCandidates, IsDir)

\* the loop of load_desktop_entries over the directories left
RECURSIVE DesktopRootsLoop(_, _, _, _, _)
DesktopRootsLoop(dirs, acc, history, fsys, unread) ==
    IF dirs = <<>> \/ acc.panic THEN acc
    ELSE DesktopRootsLoop(Tail(dirs),
           AbsorbDir(acc, load_desktop_entry_dir(Head(dirs), history, fsys,
                                                 unread)),
           history, fsys, unread)

\* result.sort_by(entry_cmp) on the collected map
SortedScan(r) == IF r.panic THEN r ELSE ScanResult(SortByName(r.map), r.parsed)

\* load_desktop_entries: all roots, then one sort of the whole result
load_desktop_entries(history, fsys, unread) ==
    SortedScan(DesktopRootsLoop(get_app_dirs, ScanResult(EmptyMap, {}),
                                history, fsys, unread))

\* a bare-file loader that returns the cached entry of the path when there
\* is one
load_bin_entry_cached(file, history) ==
    IF Get(history, file) # None THEN Get(history, file)[1]
    ELSE [EntryNew EXCEPT
            !.path = file, !.name = FileName(file), !.exec = FileName(file)]

\* load_bin_entry: a fresh entry named after the file; only the count comes
\* from the history
load_bin_entry(file, history) ==
    LET cached == Get(history, file)
    IN [EntryNew EXCEPT
          !.count = IF cached # None THEN cached[1].count ELSE 0,
          !.path = file,
          !.name = FileName(file),
          !.exec = FileName(file)]

\* the inner loop of load_bin_entries: the regular files of one listing
RECURSIVE BinDirLoop(_, _, _, _)
BinDirLoop(listing, acc, history, fsys) ==
    IF listing = <<>> THEN acc
    ELSE IF ~IsFile(Head(listing), fsys)
    THEN BinDirLoop(Tail(listing), acc, history, fsys)
    ELSE BinDirLoop(Tail(listing),
           Insert(acc, Head(listing), load_bin_entry(Head(listing), history)),
           history, fsys)

\* get_paths: the segments of $PATH that are directories
get_paths(pathvar) == SelectSeq(pathvar, IsDir)

\* the outer loop of load_bin_entries: each directory's entries are sorted
\* and appended as one block
RECURSIVE BinPathsLoop(_, _, _, _, _)
BinPathsLoop(dirs, acc, history, fsys, unread) ==
    IF dirs = <<>> THEN ScanResult(acc, {})
    ELSE IF Head(dirs) \in unread THEN ScanPanic({})
    ELSE BinPathsLoop(Tail(dirs),
           Extend(acc, SortByName(BinDirLoop(Listed(Head(dirs), fsys), EmptyMap,
                                             history, fsys))),
           history, fsys, unread)

\* load_bin_entries: [panic, map, parsed]
load_bin_entries(history, fsys, unread, pathvar) ==
    BinPathsLoop(get_paths(pathvar), EmptyMap, history, fsys, unread)

BuildPanic(file, ps) ==
    [panic |-> TRUE, file |-> file, entries |-> EmptyMap, parsed |-> ps]

\* a merge that returns the catalog and leaves the saving to the launch
MergeWithoutSave(file, d, b) ==
    IF d.panic THEN BuildPanic(file, d.parsed)
    ELSE IF b.panic THEN BuildPanic(file, d.parsed)
    ELSE [panic |-> FALSE, file |-> file,
          entries |-> Extend(d.map, b.map), parsed |-> d.parsed]

\* a merge that keeps what the history file held and the scan did not give
MergeKeepingHistory(file, d, b) ==
    IF d.panic THEN BuildPanic(file, d.parsed)
    ELSE IF b.panic THEN BuildPanic(file, d.parsed)
    ELSE [panic |-> FALSE,
          file |-> save_history(Extend(Extend(d.map, b.map),
                     SelectSeq(FromToml(file.doc),
                               LAMBDA x : ~ContainsKey(Extend(d.map, b.map), x.k)))),
          entries |-> Extend(d.map, b.map), parsed |-> d.parsed]

\* load_entries, lines 347-351: the bare entries are merged into the
\* structured ones, the result is saved and returned
MergeAndSave(file, d, b) ==
    IF d.panic THEN BuildPanic(file, d.parsed)
    ELSE IF b.panic THEN BuildPanic(file, d.parsed)
    ELSE [panic |-> FALSE, file |-> save_history(Extend(d.map, b.map)),
          entries |-> Extend(d.map, b.map), parsed |-> d.parsed]

\* load_entries after load_history; a panic leaves the history file as
\* load_history left it
ScanWithHistory(h, fsys, unread, pathvar) ==
    IF h.panic THEN BuildPanic(h.file, {})
    ELSE MergeAndSave(h.file, load_desktop_entries(h.map, fsys, unread),
                      load_bin_entries(h.map, fsys, unread, pathvar))

\* load_entries: [panic, file, entries, parsed]
load_entries(file, fsys, unread, pathvar) ==
    ScanWithHistory(load_history(file), fsys, unread, pathvar)

----------------------------------------------------------------------------
(* exec.rs: command strings.  A string that is cut, cleaned or quoted is the
   sequence of its characters. *)

\* the characters of the strings that occur
Chars(s) ==
    CASE s = "zed %f" -> <<"z", "e", "d", " ", "%", "f">>
      [] s = "apple --edit %u" ->
           <<"a", "p", "p", "l", "e", " ", "-", "-", "e", "d", "i", "t", " ",
             "%", "u">>
      [] s = "mid %f --out=%u" ->
           <<"m", "i", "d", " ", "%", "f", " ", "-", "-", "o", "u", "t", "=",
             "%", "u">>
      [] s = "a.desktop" -> <<"a", ".", "d", "e", "s", "k", "t", "o", "p">>
      [] s = "b.desktop" -> <<"b", ".", "d", "e", "s", "k", "t", "o", "p">>
      [] s = "c.desktop" -> <<"c", ".", "d", "e", "s", "k", "t", "o", "p">>
      [] s = "tool" -> <<"t", "o", "o", "l">>
      [] s = "x" -> <<"x">>
      [] s = "/bin/x" -> <<"/", "b", "i", "n", "/", "x">>
      [] s = " x " -> <<" ", "x", " ">>
      [] s = "kitty --hold" ->
           <<"k", "i", "t", "t", "y", " ", "-", "-", "h", "o", "l", "d">>
      [] s = "xterm '-e" -> <<"x", "t", "e", "r", "m", " ", "'", "-", "e">>
      [] s = "foo" -> <<"f", "o", "o">>
      [] s = "nice" -> <<"n", "i", "c", "e">>
      [] s = "alacritty" -> <<"a", "l", "a", "c", "r", "i", "t", "t", "y">>
      [] s = "-e" -> <<"-", "e">>
      [] OTHER -> <<>>

\* char::is_whitespace, for str::trim and the class \s
IsSpace(c) == c \in {" ", "\t", "\n"}

\* the class \w on the characters that occur: letters, digits, underscore
WordChars ==
    {"a", "b", "c", "d", "e", "f", "g", "h", "i", "j", "k", "l", "m",
     "n", "o", "p", "q", "r", "s", "t", "u", "v", "w", "x", "y", "z",
     "0", "1", "2", "3", "4", "5", "6", "7", "8", "9", "_"}

IsWord(c) == c \in WordChars

RECURSIVE TrimStart(_)
TrimStart(s) ==
    IF s # <<>> /\ IsSpace(Head(s)) THEN TrimStart(Tail(s)) ELSE s

RECURSIVE TrimEnd(_)
TrimEnd(s) ==
    IF s # <<>> /\ IsSpace(s[Len(s)])
    THEN TrimEnd(SubSeq(s, 1, Len(s) - 1)) ELSE s

\* str::trim
TrimChars(s) == TrimEnd(TrimStart(s))

\* the length of the match of RE_EXEC_OPT (\s*%\w) at the head of s, 0 when
\* there is none: the whole run of whitespace, a percent sign, one word
\* character
MatchExecOpt(s) ==
    IF /\ Len(TrimStart(s)) >= 2
       /\ TrimStart(s)[1] = "%"
       /\ IsWord(TrimStart(s)[2])
    THEN Len(s) - Len(TrimStart(s)) + 2
    ELSE 0

\* a replacement of the first match only
ReplaceExecOptOnce(s) ==
    IF s = <<>> THEN <<>>
    ELSE IF \E n \in 1..Len(s) : MatchExecOpt(SubSeq(s, n, Len(s))) > 0
    THEN LET n == CHOOSE n \in 1..Len(s) :
                    /\ MatchExecOpt(SubSeq(s, n, Len(s))) > 0
                    /\ \A k \in 1..(n - 1) : MatchExecOpt(SubSeq(s, k, Len(s))) = 0
         IN SubSeq(s, 1, n - 1)
              \o SubSeq(s, n + MatchExecOpt(SubSeq(s, n, Len(s))), Len(s))
    ELSE s

\* RE_EXEC_OPT.replace_all(s, ""): the matches are found from left to right,
\* each search starting where the last match ended
RECURSIVE ReplaceExecOpt(_)
ReplaceExecOpt(s) ==
    IF s = <<>> THEN <<>>
    ELSE IF MatchExecOpt(s) > 0
    THEN ReplaceExecOpt(SubSeq(s, MatchExecOpt(s) + 1, Len(s)))
    ELSE <<Head(s)>> \o ReplaceExecOpt(Tail(s))

\* shlex::split on strings of plain characters, whitespace and single
\* quotes: the words left to cut from s, with the word begun in cur;
\* [ok, words], not ok when a quote is not closed
RECURSIVE QuotedLen(_)
QuotedLen(s) ==
    IF s = <<>> THEN 0
    ELSE IF Head(s) = "'" THEN 1
    ELSE IF QuotedLen(Tail(s)) = 0 THEN 0
    ELSE QuotedLen(Tail(s)) + 1

RECURSIVE ShlexWords(_, _, _, _)
ShlexWords(s, cur, inword, words) ==
    IF s = <<>>
    THEN [ok |-> TRUE, words |-> IF inword THEN Append(words, cur) ELSE words]
    ELSE IF Head(s) = "'"
    THEN IF QuotedLen(Tail(s)) = 0 THEN [ok |-> FALSE, words |-> <<>>]
         ELSE ShlexWords(SubSeq(s, QuotedLen(Tail(s)) + 2, Len(s)),
                         cur \o SubSeq(Tail(s), 1, QuotedLen(Tail(s)) - 1),
                         TRUE, words)
    ELSE IF IsSpace(Head(s))
    THEN ShlexWords(Tail(s), <<>>, FALSE,
                    IF inword THEN Append(words, cur) ELSE words)
    ELSE ShlexWords(Tail(s), Append(cur, Head(s)), TRUE, words)

\* shlex::split
ShlexSplit(s) == ShlexWords(s, <<>>, FALSE, <<>>)

\* the characters shlex leaves unquoted
ShlexSafe(c) == IsWord(c) \/ c \in {"+", "-", ".", "/", ":", "@", "]"}

RECURSIVE ShlexEscaped(_)
ShlexEscaped(w) ==
    IF w = <<>> THEN <<>>
    ELSE (IF Head(w) \in {"$", "\"", "\\"} THEN <<"\\", Head(w)>>
          ELSE <<Head(w)>>) \o ShlexEscaped(Tail(w))

\* shlex's quoting of one word: as it is when every character is safe,
\* between single quotes when it holds none, else between double quotes
ShlexQuote(w) ==
    IF w = <<>> THEN <<"'", "'">>
    ELSE IF \A n \in 1..Len(w) : ShlexSafe(w[n]) THEN w
    ELSE IF \A n \in 1..Len(w) : w[n] # "'" THEN <<"'">> \o w \o <<"'">>
    ELSE <<"\"">> \o ShlexEscaped(w) \o <<"\"">>

\* shlex::try_join: the quoted words with one space between them
RECURSIVE ShlexJoin(_)
ShlexJoin(words) ==
    IF words = <<>> THEN <<>>
    ELSE IF Len(words) = 1 THEN ShlexQuote(words[1])
    ELSE ShlexQuote(Head(words)) \o <<" ">> \o ShlexJoin(Tail(words))

\* the settings a run is started with: --terminal-command, $TERM and
\* --command-prefix
Options(t, e, p) == [terminal_command |-> t, TERM |-> e, command_prefix |-> p]

OptionProfiles ==
    { Options(None, None, None),
      Options(None, Some("foo"), None),
      Options(Some("kitty --hold"), Some("foo"), Some("")),
      Options(Some("xterm '-e"), None, None),
      Options(None, None, Some("nice")) }

\* what a launch function hands to _exec: [panic, argv, command]
Handed(argv, command) == [panic |-> FALSE, argv |-> argv, command |-> command]
LaunchPanic == [panic |-> TRUE, argv |-> <<>>, command |-> <<>>]

\* a launch of the query as typed
execute_raw_untrimmed(q) == Handed(<<>>, Chars(q))

\* execute_raw
execute_raw(q) == Handed(<<>>, TrimChars(Chars(q)))

\* exec_command
exec_command(e) == Handed(<<>>, TrimChars(Chars(e.exec)))

\* exec_app
exec_app(e) == Handed(<<>>, ReplaceExecOpt(TrimChars(Chars(e.exec))))

\* a choice of the terminal words that looks at $TERM first
TermPrefixEnvFirst(o) ==
    IF o.TERM # None
    THEN [ok |-> TRUE, words |-> <<Chars(o.TERM[1]), Chars("-e")>>]
    ELSE IF o.terminal_command # None
    THEN ShlexSplit(Chars(o.terminal_command[1]))
    ELSE [ok |-> TRUE, words |-> <<Chars("alacritty"), Chars("-e")>>]

\* exec_term, lines 50-59: the words before the command
TermPrefix(o) ==
    IF o.terminal_command # None
    THEN ShlexSplit(Chars(o.terminal_command[1]))
    ELSE IF o.TERM # None
    THEN [ok |-> TRUE, words |-> <<Chars(o.TERM[1]), Chars("-e")>>]
    ELSE [ok |-> TRUE, words |-> <<Chars("alacritty"), Chars("-e")>>]

\* exec_term with the cleaned command
TermJoined(prefix, cleaned) ==
    IF ~prefix.ok THEN LaunchPanic
    ELSE Handed(Append(prefix.words, cleaned),
                ShlexJoin(Append(prefix.words, cleaned)))

\* exec_term
exec_term(e, o) ==
    TermJoined(TermPrefix(o), ReplaceExecOpt(TrimChars(Chars(e.exec))))

\* execute, lines 24-30
Launched(e, o) ==
    IF ~e.desktop THEN exec_command(e)
    ELSE IF ~e.terminal THEN exec_app(e)
    ELSE exec_term(e, o)

\* _exec, lines 69-72: the string given to sh -c
ShellLine(o, command) ==
    IF o.command_prefix # None /\ o.command_prefix[1] # ""
    THEN Chars(o.command_prefix[1]) \o <<" ">> \o command
    ELSE command

\* the call of _exec: the settings, the words joined, the command handed
\* over and the string given to sh -c
Called(o, h) ==
    [options |-> o, argv |-> h.argv, command |-> h.command,
     line |-> ShellLine(o, h.command)]

\* a count-descending stable sort step for main's tmp_entries: pair e goes
\* after the last pair whose count is not less than its own
RECURSIVE InsertByCount(_, _)
InsertByCount(sorted, e) ==
    IF sorted = <<>> THEN <<e>>
    ELSE IF sorted[Len(sorted)].v.count < e.v.count
         THEN Append(InsertByCount(SubSeq(sorted, 1, Len(sorted) - 1), e),
                     sorted[Len(sorted)])
         ELSE Append(sorted, e)

RECURSIVE SortByCountFrom(_, _)
SortByCountFrom(m, acc) ==
    IF m = <<>> THEN acc
    ELSE SortByCountFrom(Tail(m), InsertByCount(acc, Head(m)))

\* main, lines 20-27: the clone of the catalog sorted by count, the greatest
\* first, as sent to the selection
tmp_entries(m) == SortByCountFrom(m, <<>>)

----------------------------------------------------------------------------
(* The launcher instances and the environment *)

Inst == {1, 2}

NoStreak == [path |-> "", init |-> 0, n |-> 0]

Max(a, b) == IF a >= b THEN a ELSE b

\* the highest count persisted for each path, once the history file is f
Persisted(old, f) ==
    IF ~f.valid THEN old
    ELSE [p \in Files |->
            IF ContainsKey(FromToml(f.doc), p)
            THEN Max(old[p], Get(FromToml(f.doc), p)[1].count)
            ELSE old[p]]

Init ==
    /\ fs = [f \in Files |->
               CASE f = "/app/a.desktop" -> Regular(1, IniValid1)
                 [] f = "/bin/x"         -> Regular(1, IniEmpty)
                 [] OTHER                -> Absent]
    /\ unreadable = {}
    /\ PATH = <<"/bin", "/nonexistent">>
    /\ cache = NoFile
    /\ pc = [i \in Inst |-> "start"]
    /\ entries = [i \in Inst |-> EmptyMap]
    /\ parsed = [i \in Inst |-> {}]
    /\ entry = [i \in Inst |-> None]
    /\ cmd = [i \in Inst |-> None]
    /\ exitCode = [i \in Inst |-> 0]
    /\ items = [i \in Inst |-> <<>>]
    /\ shell = [i \in Inst |-> None]
    /\ envSteps = 0
    /\ recorded = [f \in Files |-> 0]
    /\ streak = NoStreak

world == <<fs, unreadable, PATH, envSteps>>

\* a build whose catalog is sorted by count itself, not a clone of it
LoadEntriesSorted(i) ==
    /\ pc[i] \in {"start", "exit"}
    /\ LET r == load_entries(cache, fs, unreadable, PATH)
       IN /\ cache' = r.file
          /\ entries' = [entries EXCEPT ![i] = tmp_entries(r.entries)]
          /\ items' = [items EXCEPT ![i] = tmp_entries(r.entries)]
          /\ parsed' = [parsed EXCEPT ![i] = IF r.panic THEN {} ELSE r.parsed]
          /\ pc' = [pc EXCEPT ![i] = IF r.panic THEN "exit" ELSE "select"]
          /\ exitCode' = [exitCode EXCEPT ![i] = IF r.panic THEN 101 ELSE 0]
          /\ recorded' = Persisted(recorded, r.file)
    /\ entry' = [entry EXCEPT ![i] = None]
    /\ cmd' = [cmd EXCEPT ![i] = None]
    /\ shell' = [shell EXCEPT ![i] = None]
    /\ UNCHANGED <<world, streak>>

\* main, line 16: a run starts with load_entries; a panic ends it with 101
LoadEntries(i) ==
    /\ pc[i] \in {"start", "exit"}
    /\ LET r == load_entries(cache, fs, unreadable, PATH)
       IN /\ cache' = r.file
          /\ entries' = [entries EXCEPT ![i] = r.entries]
          /\ items' = [items EXCEPT ![i] = tmp_entries(r.entries)]
          /\ parsed' = [parsed EXCEPT ![i] = IF r.panic THEN {} ELSE r.parsed]
          /\ pc' = [pc EXCEPT ![i] = IF r.panic THEN "exit" ELSE "select"]
          /\ exitCode' = [exitCode EXCEPT ![i] = IF r.panic THEN 101 ELSE 0]
          /\ recorded' = Persisted(recorded, r.file)
    /\ entry' = [entry EXCEPT ![i] = None]
    /\ cmd' = [cmd EXCEPT ![i] = None]
    /\ shell' = [shell EXCEPT ![i] = None]
    /\ UNCHANGED <<world, streak>>

\* the process ends: its memory is gone
Dropped(i) ==
    /\ entries' = [entries EXCEPT ![i] = EmptyMap]
    /\ parsed' = [parsed EXCEPT ![i] = {}]
    /\ entry' = [entry EXCEPT ![i] = None]
    /\ cmd' = [cmd EXCEPT ![i] = None]
    /\ items' = [items EXCEPT ![i] = <<>>]
    /\ shell' = [shell EXCEPT ![i] = None]

\* the statuses main exits with
ErrorStatus == 135
AbortStatus == 130

\* main, lines 32-35: the selection failed
SelectError(i) ==
    /\ pc[i] = "select"
    /\ pc' = [pc EXCEPT ![i] = "exit"]
    /\ exitCode' = [exitCode EXCEPT ![i] = ErrorStatus]
    /\ Dropped(i)
    /\ UNCHANGED <<world, cache, recorded, streak>>

\* main, lines 37-41: the selection was aborted
SelectAbort(i) ==
    /\ pc[i] = "select"
    /\ pc' = [pc EXCEPT ![i] = "exit"]
    /\ exitCode' = [exitCode EXCEPT ![i] = AbortStatus]
    /\ Dropped(i)
    /\ UNCHANGED <<world, cache, recorded, streak>>

\* what the user typed: the path of an entry, the name of one between spaces
Queries == {"/bin/x", " x "}

\* str::trim on the queries that occur
Trim(q) == IF q = " x " THEN "x" ELSE q

\* main, line 45, and execute_raw: the typed query is launched as it is
ExecuteRaw(i, q) ==
    /\ pc[i] = "select"
    /\ pc' = [pc EXCEPT ![i] = "spawn"]
    /\ cmd' = [cmd EXCEPT ![i] = Some([via |-> "execute_raw", exec |-> Trim(q)])]
    /\ \E o \in OptionProfiles :
          shell' = [shell EXCEPT ![i] = Some(Called(o, execute_raw(q)))]
    /\ UNCHANGED <<world, cache, entries, parsed, entry, exitCode, items,
                   recorded, streak>>

\* the branch execute takes for the cloned entry
Dispatch(e) ==
    IF ~e.desktop THEN [via |-> "exec_command", exec |-> e.exec]
    ELSE IF ~e.terminal THEN [via |-> "exec_app", exec |-> e.exec]
    ELSE [via |-> "exec_term", exec |-> e.exec]

\* an increment that reaches only a copy of the entry
IncrementedCopy(m, pathstr) == m

\* an increment that takes the entry out of the map and inserts it anew
IncrementedReinserted(m, pathstr) ==
    Append(SelectSeq(m, LAMBDA x : x.k # pathstr),
           [k |-> pathstr,
            v |-> [m[IndexOf(m, pathstr)].v EXCEPT !.count = @ + 1]])

\* execute, lines 19-22: the catalog with the count of pathstr incremented
Incremented(m, pathstr) ==
    [m EXCEPT ![IndexOf(m, pathstr)].v.count = @ + 1]

\* the launches recorded in a catalog
RECURSIVE TotalCount(_)
TotalCount(m) == IF m = <<>> THEN 0 ELSE Head(m).v.count + TotalCount(Tail(m))

\* the streak of launches after a launch of pathstr whose count was `before`
StreakAfter(s, pathstr, before) ==
    IF s.path = pathstr THEN [s EXCEPT !.n = @ + 1]
    ELSE [path |-> pathstr, init |-> before, n |-> 1]

\* execute, lines 24-30, for the clone e of the incremented entry, the
\* catalog being `after`: the launch function builds the command and calls
\* _exec, or panics
Launch(i, o, after, e) ==
    IF Launched(e, o).panic
    THEN /\ pc' = [pc EXCEPT ![i] = "exit"]
         /\ exitCode' = [exitCode EXCEPT ![i] = 101]
         /\ Dropped(i)
    ELSE /\ pc' = [pc EXCEPT ![i] = "spawn"]
         /\ entries' = [entries EXCEPT ![i] = after]
         /\ entry' = [entry EXCEPT ![i] = Some(e)]
         /\ cmd' = [cmd EXCEPT ![i] = Some(Dispatch(e))]
         /\ shell' = [shell EXCEPT ![i] = Some(Called(o, Launched(e, o)))]
         /\ UNCHANGED <<exitCode, parsed, items>>

\* an execute that spawns without saving first
ExecuteUnsaved(i, j) ==
    /\ pc[i] = "select"
    /\ j \in 1..Len(items[i])
    /\ ContainsKey(entries[i], items[i][j].v.path)
    /\ TotalCount(entries[i]) < MaxCount
    /\ \E o \in OptionProfiles :
          Launch(i, o, Incremented(entries[i], items[i][j].v.path),
                 Get(Incremented(entries[i], items[i][j].v.path),
                     items[i][j].v.path)[1])
    /\ streak' = StreakAfter(streak, items[i][j].v.path,
                             Get(entries[i], items[i][j].v.path)[1].count)
    /\ UNCHANGED <<world, cache, recorded>>

\* main, lines 47-48, and execute: item j of the sequence sent to the
\* selection was selected, its output() is the path looked up in `entries`
Execute(i, j) ==
    /\ pc[i] = "select"
    /\ j \in 1..Len(items[i])
    /\ LET pathstr == items[i][j].v.path IN
       IF ~ContainsKey(entries[i], pathstr)
       THEN /\ pc' = [pc EXCEPT ![i] = "exit"]
            /\ exitCode' = [exitCode EXCEPT ![i] = 101]
            /\ Dropped(i)
            /\ UNCHANGED <<cache, recorded, streak>>
       ELSE /\ TotalCount(entries[i]) < MaxCount
            /\ LET after == Incremented(entries[i], pathstr)
               IN /\ cache' = save_history(after)
                  /\ recorded' = Persisted(recorded, save_history(after))
                  /\ streak' = StreakAfter(streak, pathstr,
                                          Get(entries[i], pathstr)[1].count)
                  /\ \E o \in OptionProfiles :
                        Launch(i, o, after, Get(after, pathstr)[1])
    /\ UNCHANGED world

\* _exec: the spawn succeeds, or fails and the expect panics
Spawn(i, ok) ==
    /\ pc[i] = "spawn"
    /\ pc' = [pc EXCEPT ![i] = "exit"]
    /\ exitCode' = [exitCode EXCEPT ![i] = IF ok THEN 0 ELSE 101]
    /\ Dropped(i)
    /\ UNCHANGED <<world, cache, recorded, streak>>

\* the environment acts between the runs of the launcher
EnvMayAct ==
    /\ envSteps < MaxEnvSteps
    /\ \A i \in Inst : pc[i] \in {"start", "exit"}

EnvStep ==
    /\ envSteps' = envSteps + 1
    /\ streak' = NoStreak
    /\ UNCHANGED <<pc, entries, parsed, entry, cmd, exitCode, items, shell,
                   recorded>>

\* a file is created or rewritten
WriteFile(f, m, c) ==
    /\ EnvMayAct
    /\ fs[f] # Regular(m, c)
    /\ fs' = [fs EXCEPT ![f] = Regular(m, c)]
    /\ EnvStep
    /\ UNCHANGED <<unreadable, PATH, cache>>

\* a file is replaced by a link to a missing target
LinkDangling(f) ==
    /\ EnvMayAct
    /\ fs[f] # Dangling
    /\ fs' = [fs EXCEPT ![f] = Dangling]
    /\ EnvStep
    /\ UNCHANGED <<unreadable, PATH, cache>>

RemoveFile(f) ==
    /\ EnvMayAct
    /\ fs[f] # Absent
    /\ fs' = [fs EXCEPT ![f] = Absent]
    /\ EnvStep
    /\ UNCHANGED <<unreadable, PATH, cache>>

\* a directory loses its read permission
MakeUnreadable(d) ==
    /\ EnvMayAct
    /\ d \notin unreadable
    /\ unreadable' = unreadable \cup {d}
    /\ EnvStep
    /\ UNCHANGED <<fs, PATH, cache>>

SetPath(v) ==
    /\ EnvMayAct
    /\ PATH # v
    /\ PATH' = v
    /\ EnvStep
    /\ UNCHANGED <<fs, unreadable, cache>>

\* the history file is damaged from outside
CorruptCache ==
    /\ EnvMayAct
    /\ cache.exists /\ cache.valid
    /\ cache' = BrokenFile
    /\ EnvStep
    /\ UNCHANGED <<fs, unreadable, PATH>>

Environment ==
    \/ \E f \in Files : \E w \in Writes(f) : WriteFile(f, w[1], w[2])
    \/ LinkDangling("/app/a.desktop")
    \/ \E f \in {"/app/a.desktop", "/bin/x"} : RemoveFile(f)
    \/ \E d \in {"/app/sub", "/bin", "/sys"} : MakeUnreadable(d)
    \/ \E v \in PathValues : SetPath(v)
    \/ CorruptCache

Run(i) ==
    \/ LoadEntries(i)
    \/ SelectError(i)
    \/ SelectAbort(i)
    \/ \E q \in Queries : ExecuteRaw(i, q)
    \/ \E j \in 1..Len(items[i]) : Execute(i, j)
    \/ \E ok \in BOOLEAN : Spawn(i, ok)

\* one launcher at a time
Next == Run(1) \/ Environment

Spec == Init /\ [][Next]_vars

----------------------------------------------------------------------------
(* Two launchers on one history file.  Nothing locks the file, so the steps
   of save_history are taken one by one: File::create truncates the file,
   the write that follows puts the document at offset 0 of what the file
   holds by then. *)

\* file.write of `doc` through a handle opened before the file got what it
\* holds now: the bytes of doc replace the first bytes of the file and what
\* the file holds beyond them stays.  Tables with the same key have the same
\* length for the counts that occur (one digit), so a file whose first keys
\* are those of doc keeps its further tables; a file cut elsewhere does not
\* parse
Written(file, doc) ==
    IF Len(file.doc) <= Len(doc) THEN TomlFile(doc)
    ELSE IF \A n \in 1..Len(doc) : file.doc[n].k = doc[n].k
    THEN TomlFile(doc \o SubSeq(file.doc, Len(doc) + 1, Len(file.doc)))
    ELSE BrokenFile

\* main, line 16, up to the call of save_history in load_entries: the
\* history is read and both scans are merged in memory
BuildLoad(i) ==
    /\ pc[i] \in {"start", "exit"}
    /\ LET r == load_entries(cache, fs, unreadable, PATH)
       IN /\ cache' = get_hist_file(cache)
          /\ entries' = [entries EXCEPT ![i] = r.entries]
          /\ items' = [items EXCEPT ![i] = tmp_entries(r.entries)]
          /\ parsed' = [parsed EXCEPT ![i] = IF r.panic THEN {} ELSE r.parsed]
          /\ pc' = [pc EXCEPT ![i] = IF r.panic THEN "exit" ELSE "build_create"]
          /\ exitCode' = [exitCode EXCEPT ![i] = IF r.panic THEN 101 ELSE 0]
    /\ entry' = [entry EXCEPT ![i] = None]
    /\ cmd' = [cmd EXCEPT ![i] = None]
    /\ shell' = [shell EXCEPT ![i] = None]
    /\ UNCHANGED <<world, recorded, streak>>

\* execute, lines 19-21: the count of the selected entry is incremented in
\* memory and the entry cloned
ExecuteBegin(i, j) ==
    /\ pc[i] = "select"
    /\ j \in 1..Len(items[i])
    /\ ContainsKey(entries[i], items[i][j].v.path)
    /\ TotalCount(entries[i]) < MaxCount
    /\ entries' = [entries EXCEPT
                     ![i] = Incremented(entries[i], items[i][j].v.path)]
    /\ entry' = [entry EXCEPT
                   ![i] = Get(Incremented(entries[i], items[i][j].v.path),
                              items[i][j].v.path)]
    /\ pc' = [pc EXCEPT ![i] = "exec_create"]
    /\ UNCHANGED <<world, cache, parsed, cmd, exitCode, items, shell, recorded,
                   streak>>

\* save_history, line 29: File::create truncates the file
SaveCreate(i) ==
    /\ pc[i] \in {"build_create", "exec_create"}
    /\ cache' = TomlFile(<<>>)
    /\ pc' = [pc EXCEPT ![i] = IF pc[i] = "build_create"
                               THEN "build_write" ELSE "exec_write"]
    /\ UNCHANGED <<world, entries, parsed, entry, cmd, exitCode, items, shell,
                   recorded, streak>>

\* save_history, lines 30-33, at the end of load_entries: the catalog is
\* written and the selection begins
BuildWrite(i) ==
    /\ pc[i] = "build_write"
    /\ cache' = Written(cache, ToToml(entries[i]))
    /\ recorded' = Persisted(recorded, Written(cache, ToToml(entries[i])))
    /\ pc' = [pc EXCEPT ![i] = "select"]
    /\ UNCHANGED <<world, entries, parsed, entry, cmd, exitCode, items, shell,
                   streak>>

\* save_history, lines 30-33, in execute, and the launch function after it
ExecuteWrite(i) ==
    /\ pc[i] = "exec_write"
    /\ cache' = Written(cache, ToToml(entries[i]))
    /\ recorded' = Persisted(recorded, Written(cache, ToToml(entries[i])))
    /\ \E o \in OptionProfiles : Launch(i, o, entries[i], entry[i][1])
    /\ UNCHANGED <<world, streak>>

\* a file is removed while launchers run
Unlink(f) ==
    /\ envSteps < MaxEnvSteps
    /\ fs[f].kind = "file"
    /\ fs' = [fs EXCEPT ![f] = Absent]
    /\ envSteps' = envSteps + 1
    /\ UNCHANGED <<unreadable, PATH, cache, pc, entries, parsed, entry, cmd,
                   exitCode, items, shell, recorded, streak>>

RunOverlap(i) ==
    \/ BuildLoad(i)
    \/ SaveCreate(i)
    \/ BuildWrite(i)
    \/ SelectError(i)
    \/ SelectAbort(i)
    \/ \E q \in Queries : ExecuteRaw(i, q)
    \/ \E j \in 1..Len(items[i]) : ExecuteBegin(i, j)
    \/ ExecuteWrite(i)
    \/ \E ok \in BOOLEAN : Spawn(i, ok)

NextOverlap == RunOverlap(1) \/ RunOverlap(2) \/ Unlink("/bin/x")

SpecOverlap == Init /\ [][NextOverlap]_vars

----------------------------------------------------------------------------
(* Notions the properties below speak about *)

\* the catalog the history file holds now
Hist == IF cache.valid THEN FromToml(cache.doc) ELSE EmptyMap

\* the history file can be loaded: it parses, or is absent and gets created
Loadable == cache.valid \/ ~cache.exists

\* the directories the two scanners list
PathDirs == { get_paths(PATH)[n] : n \in 1..Len(get_paths(PATH)) }

\* f is a regular file listed in a directory of $PATH
FoundByPathScanner(f) ==
    /\ IsFile(f, fs)
    /\ \E d \in PathDirs : \E n \in 1..Len(DirListing(d)) : DirListing(d)[n] = f

\* the history holds f with the modification time m
CachedAt(f, m) == ContainsKey(Hist, f) /\ Get(Hist, f)[1].mtime = Some(m)

\* the history holds f with a modification time other than m
CachedStale(f, m) ==
    /\ ContainsKey(Hist, f)
    /\ Get(Hist, f)[1].mtime # None
    /\ Get(Hist, f)[1].mtime # Some(m)

\* the count the history holds for f, 0 when it holds none
PriorCount(f) == IF ContainsKey(Hist, f) THEN Get(Hist, f)[1].count ELSE 0

\* the contents parse but lack the section, the Name key or the Exec key
LacksRequired(c) ==
    /\ c.parses
    /\ \/ ~c.section
       \/ "Name" \notin DOMAIN c.keys
       \/ "Exec" \notin DOMAIN c.keys

----------------------------------------------------------------------------
(* C1: the usage count recorded for a path is never reset while the history
   file is not deleted: whenever the history file holds a path, it holds it
   with the highest count it ever held for that path, also when the path was
   missing from a scan in between. *)
C1_CountNeverReset ==
    cache.valid =>
        \A p \in Files :
            ContainsKey(Hist, p) => Get(Hist, p)[1].count >= recorded[p]

----------------------------------------------------------------------------
(* C2: launching one entry N times in a row, with no change of the
   environment in between, leaves its count at the initial value plus N; the
   history file holds that value after every launch, and so does the catalog
   of a running launcher. *)
C2_CounterDurability ==
    streak.path # "" =>
        /\ cache.valid
        /\ ContainsKey(Hist, streak.path)
        /\ Get(Hist, streak.path)[1].count = streak.init + streak.n
        /\ pc[1] \in {"select", "spawn"} =>
              /\ ContainsKey(entries[1], streak.path)
              /\ Get(entries[1], streak.path)[1].count = streak.init + streak.n

\* an entry was launched twice in a row and a third run has built its catalog
C2_Witness ==
    /\ streak.n = 2
    /\ pc[1] = "select"
    /\ Get(Hist, streak.path)[1].count = streak.init + 2

----------------------------------------------------------------------------
(* C3: when execute reaches the spawn for a selected entry of any kind, the
   incremented count is in memory and the whole catalog, with that count, is
   in the history file; the spawn, failing or not, leaves the file as it
   is. *)
C3_AtSpawn ==
    (pc[1] = "spawn" /\ entry[1] # None) =>
        /\ cache = save_history(entries[1])
        /\ Get(Hist, entry[1][1].path) = entry[1]
        /\ entry[1][1].count = streak.init + streak.n
        /\ streak.n >= 1
        /\ cmd[1] = Some(Dispatch(entry[1][1]))

C3_SpawnKeepsFile ==
    (pc[1] = "spawn" /\ pc'[1] = "exit") => cache' = cache

C3_SavedBeforeSpawn == [] C3_AtSpawn /\ [][C3_SpawnKeepsFile]_vars

\* a terminal application was selected and its spawn is about to be tried
C3_Witness ==
    /\ pc[1] = "spawn"
    /\ entry[1] # None
    /\ cmd[1][1].via = "exec_term"
    /\ Get(Hist, entry[1][1].path)[1].count = 1

----------------------------------------------------------------------------
(* C4: a descriptor whose path the history holds with the file's present
   modification time yields the cached entry, every field as cached, and is
   not parsed, whatever the file contains. *)
C4_CacheShortCircuit ==
    \A f \in DesktopFiles :
        (fs[f].kind = "file" /\ CachedAt(f, fs[f].mtime)) =>
            load_desktop_entry_file(f, Hist, fs)
                = [panic |-> FALSE, entry |-> Get(Hist, f), parsed |-> FALSE]

\* a build took the entry of a rewritten file from the history, unparsed: the
\* catalog has the old name, the file another
C4_Witness ==
    /\ pc[1] = "select"
    /\ parsed[1] = {}
    /\ fs["/app/a.desktop"] = Regular(1, IniValid2)
    /\ Get(entries[1], "/app/a.desktop")[1].name = "Zed"
    /\ Get(entries[1], "/app/a.desktop")[1].mtime = Some(1)
    /\ Get(entries[1], "/app/a.desktop")[1].count = 1

----------------------------------------------------------------------------
(* C5: a descriptor whose path the history holds with another modification
   time, and whose new contents are well formed, is parsed into an entry
   with the name, command, generic name, comment and terminal flag of the new
   contents, the fresh modification time, desktop set, and the count of the
   history. *)
C5_Expected(f) ==
    [path |-> f,
     mtime |-> Some(fs[f].mtime),
     name |-> fs[f].content.keys["Name"],
     exec |-> fs[f].content.keys["Exec"],
     generic_name |-> IF "GenericName" \in DOMAIN fs[f].content.keys
                      THEN Some(fs[f].content.keys["GenericName"]) ELSE None,
     comment |-> IF "Comment" \in DOMAIN fs[f].content.keys
                 THEN Some(fs[f].content.keys["Comment"]) ELSE None,
     terminal |-> /\ "Terminal" \in DOMAIN fs[f].content.keys
                  /\ fs[f].content.keys["Terminal"] = "true",
     desktop |-> TRUE,
     count |-> Get(Hist, f)[1].count]

C5_InvalidationCorrect ==
    \A f \in DesktopFiles :
        (/\ fs[f].kind = "file"
         /\ CachedStale(f, fs[f].mtime)
         /\ fs[f].content \in ValidContents) =>
            load_desktop_entry_file(f, Hist, fs)
                = [panic |-> FALSE, entry |-> Some(C5_Expected(f)),
                   parsed |-> TRUE]

\* a build parsed a launched entry's rewritten file: new fields, old count
C5_Witness ==
    /\ pc[1] = "select"
    /\ "/app/a.desktop" \in parsed[1]
    /\ fs["/app/a.desktop"] = Regular(2, IniValid2)
    /\ Get(entries[1], "/app/a.desktop")
         = Some([path |-> "/app/a.desktop", mtime |-> Some(2),
                 name |-> "Apple", exec |-> "apple --edit %u",
                 generic_name |-> Some("Editor"),
                 comment |-> Some("Edit text"), terminal |-> TRUE,
                 desktop |-> TRUE, count |-> 1])

----------------------------------------------------------------------------
(* C6: every regular file the path scanner finds yields an entry named after
   the file (name = exec = base name), not desktop, without modification
   time, whose count is the history's count for that path, 0 when the history
   has none; nothing else of the cached entry is taken. *)
C6_Expected(f) ==
    [path |-> f, mtime |-> None, name |-> FileName(f), exec |-> FileName(f),
     generic_name |-> None, comment |-> None, terminal |-> FALSE,
     desktop |-> FALSE, count |-> PriorCount(f)]

C6_BareEntry ==
    ~load_bin_entries(Hist, fs, unreadable, PATH).panic =>
        \A f \in Files :
            FoundByPathScanner(f) =>
                Get(load_bin_entries(Hist, fs, unreadable, PATH).map, f)
                    = Some(C6_Expected(f))

\* a build found a launched descriptor as a bare file of $PATH too: the
\* catalog has the bare entry with the count of the cached structured one
C6_Witness ==
    /\ pc[1] = "select"
    /\ "/app" \in PathDirs
    /\ parsed[1] = {}
    /\ Get(entries[1], "/app/a.desktop")
         = Some([path |-> "/app/a.desktop", mtime |-> None,
                 name |-> "a.desktop", exec |-> "a.desktop",
                 generic_name |-> None, comment |-> None, terminal |-> FALSE,
                 desktop |-> FALSE, count |-> 1])

----------------------------------------------------------------------------
(* C7: a build that follows a build, with nothing changed in between, ends
   with the same history file and the same catalog in the same order: in the
   state a build leaves, one more build changes nothing. *)
C7_Idempotent ==
    pc[1] = "select" =>
        /\ ~load_entries(cache, fs, unreadable, PATH).panic
        /\ load_entries(cache, fs, unreadable, PATH).file = cache
        /\ load_entries(cache, fs, unreadable, PATH).entries = entries[1]

----------------------------------------------------------------------------
(* C8: a descriptor that is parsed and lacks the section, the Name key or the
   Exec key yields no entry and no panic, and the scan of the descriptor
   directories gives what it gives without that file. *)
C8_Without(f) == [fs EXCEPT ![f] = Absent]

C8_DropOnInvalid ==
    \A f \in DesktopFiles :
        (/\ fs[f].kind = "file"
         /\ LacksRequired(fs[f].content)
         /\ ~CachedAt(f, fs[f].mtime)
         /\ ContainsKey(Hist, f) => Get(Hist, f)[1].mtime # None) =>
            /\ load_desktop_entry_file(f, Hist, fs)
                 = [panic |-> FALSE, entry |-> None, parsed |-> TRUE]
            /\ load_desktop_entries(Hist, fs, unreadable).panic
                 = load_desktop_entries(Hist, C8_Without(f), unreadable).panic
            /\ load_desktop_entries(Hist, fs, unreadable).map
                 = load_desktop_entries(Hist, C8_Without(f), unreadable).map

\* a build parsed a descriptor without Exec, left it out and kept another
\* directory's entry
C8_Witness ==
    /\ pc[1] = "select"
    /\ fs["/app/a.desktop"] = Regular(2, IniNoExec)
    /\ "/app/a.desktop" \in parsed[1]
    /\ ~ContainsKey(entries[1], "/app/a.desktop")
    /\ ContainsKey(entries[1], "/app/sub/b.desktop")

----------------------------------------------------------------------------
(* C9: a directory that exists but cannot be listed is skipped: every build
   ends as it would if that directory were empty, with the same catalog
   returned and saved. *)
BuildStep == pc[1] \in {"start", "exit"} /\ envSteps' = envSteps

C9_Skipped ==
    [f \in Files |->
       IF \E d \in unreadable :
              \E n \in 1..Len(DirListing(d)) : DirListing(d)[n] = f
       THEN Absent ELSE fs[f]]

C9_BuildSkips ==
    (BuildStep /\ Loadable) =>
        /\ (pc'[1] = "exit") = load_entries(cache, C9_Skipped, {}, PATH).panic
        /\ entries'[1] = load_entries(cache, C9_Skipped, {}, PATH).entries
        /\ cache' = load_entries(cache, C9_Skipped, {}, PATH).file

C9_UnreadableDirSkipped == [][C9_BuildSkips]_vars

----------------------------------------------------------------------------
(* C10: a descriptor whose metadata cannot be read, whose contents do not
   parse, or whose Terminal value is no boolean string does not abort the
   build: a build that aborts would abort without those files too. *)
C10_Faulty(f) ==
    \/ fs[f].kind = "dangling"
    \/ /\ fs[f].kind = "file"
       /\ \/ ~fs[f].content.parses
          \/ /\ "Terminal" \in DOMAIN fs[f].content.keys
             /\ ~LenientBoolParse(fs[f].content.keys["Terminal"]).ok

C10_WithoutFaulty ==
    [f \in Files |->
       IF f \in DesktopFiles /\ C10_Faulty(f) THEN Absent ELSE fs[f]]

C10_BuildSurvives ==
    (BuildStep /\ Loadable /\ pc'[1] = "exit") =>
        load_entries(cache, C10_WithoutFaulty, unreadable, PATH).panic

C10_FileNeverAborts == [][C10_BuildSurvives]_vars

----------------------------------------------------------------------------
(* C11: the catalog load_entries returns has no path twice, and a path that
   both the descriptor scan and the path scan produce is held with the entry
   of the path scan: not desktop, without modification time. *)
NoDuplicateKeys(m) ==
    \A a \in 1..Len(m) : \A b \in 1..Len(m) : m[a].k = m[b].k => a = b

C11_Merged(r, d, b) ==
    ~r.panic =>
        /\ NoDuplicateKeys(r.entries)
        /\ Keys(r.entries) = Keys(d.map) \cup Keys(b.map)
        /\ \A p \in Keys(d.map) \cap Keys(b.map) :
              /\ Get(r.entries, p) = Get(b.map, p)
              /\ ~Get(r.entries, p)[1].desktop
              /\ Get(r.entries, p)[1].mtime = None

C11_OnePerPath ==
    /\ C11_Merged(load_entries(cache, fs, unreadable, PATH),
                  load_desktop_entries(Hist, fs, unreadable),
                  load_bin_entries(Hist, fs, unreadable, PATH))
    /\ pc[1] = "select" => NoDuplicateKeys(entries[1])

\* a build parsed a descriptor that is also a file of $PATH and returned the
\* bare entry for it, next to another entry
C11_Witness ==
    /\ pc[1] = "select"
    /\ "/app/a.desktop" \in parsed[1]
    /\ fs["/app/a.desktop"].content \in ValidContents
    /\ FoundByPathScanner("/app/a.desktop")
    /\ Len(entries[1]) >= 2
    /\ ~Get(entries[1], "/app/a.desktop")[1].desktop
    /\ Get(entries[1], "/app/a.desktop")[1].mtime = None

----------------------------------------------------------------------------
(* C12: in the catalog a build returns, the desktop entries stand in
   ascending order of their names (bytewise, so "Apple", "Zed", "mid"), over
   all descriptor directories together; the bare entries stand directory by
   directory in the order of $PATH, and in ascending order of their names
   within one directory. *)
\* the directory whose listing holds the file
DirOf(f) ==
    CHOOSE d \in Dirs : \E n \in 1..Len(DirListing(d)) : DirListing(d)[n] = f

\* the place of a directory in the list get_paths returns
PathIndex(d) == CHOOSE n \in 1..Len(get_paths(PATH)) : get_paths(PATH)[n] = d

C12_DesktopInOrder(m) ==
    \A a \in 1..Len(m) : \A b \in 1..Len(m) :
        (a < b /\ m[a].v.desktop /\ m[b].v.desktop) =>
            ~entry_cmp_less(m[b].v, m[a].v)

C12_BareInOrder(m) ==
    \A a \in 1..Len(m) : \A b \in 1..Len(m) :
        (a < b /\ ~m[a].v.desktop /\ ~m[b].v.desktop) =>
            \/ PathIndex(DirOf(m[a].k)) < PathIndex(DirOf(m[b].k))
            \/ /\ DirOf(m[a].k) = DirOf(m[b].k)
               /\ ~entry_cmp_less(m[b].v, m[a].v)

C12_CatalogOrder ==
    pc[1] = "select" =>
        /\ C12_DesktopInOrder(entries[1])
        /\ C12_BareInOrder(entries[1])

----------------------------------------------------------------------------
(* C13: a build that finds the history file present but not parsable ends
   the run at load_history: no catalog is returned, nothing is saved and the
   history file stays as it was. *)
C13_BuildFails ==
    (BuildStep /\ cache.exists /\ ~cache.valid) =>
        /\ pc'[1] = "exit"
        /\ exitCode'[1] = 101
        /\ entries'[1] = EmptyMap
        /\ cache' = cache
        /\ recorded' = recorded

C13_BrokenCacheFatal == [][C13_BuildFails]_vars

\* the history file is broken and the run on it has ended with a panic
C13_Witness ==
    /\ cache = BrokenFile
    /\ pc[1] = "exit"
    /\ exitCode[1] = 101
    /\ entries[1] = EmptyMap

----------------------------------------------------------------------------
(* C16: a descriptor whose path the history holds as a bare entry (no
   modification time) is a cache miss: the file is parsed into a desktop
   entry with the fresh modification time and the count of the history, and
   nothing panics. *)
CachedBare(f) ==
    /\ ContainsKey(Hist, f)
    /\ Get(Hist, f)[1].mtime = None
    /\ ~Get(Hist, f)[1].desktop

C16_KindChangeKeepsCount ==
    \A f \in DesktopFiles :
        (/\ fs[f].kind = "file"
         /\ CachedBare(f)
         /\ fs[f].content \in ValidContents) =>
            load_desktop_entry_file(f, Hist, fs)
                = [panic |-> FALSE, entry |-> Some(C5_Expected(f)),
                   parsed |-> TRUE]

----------------------------------------------------------------------------
(* C17: in the catalog a build returns no bare entry stands before a desktop
   entry. *)
C17_StructuredFirst ==
    pc[1] = "select" =>
        \A a \in 1..Len(entries[1]) : \A b \in 1..Len(entries[1]) :
            (a < b /\ entries[1][b].v.desktop) => entries[1][a].v.desktop

----------------------------------------------------------------------------
(* C14: for a desktop entry with the terminal flag, _exec is handed the
   shell-quoted join of the terminal words and the cleaned command, where the
   terminal words are the words of --terminal-command when it is set, else
   $TERM and "-e" when $TERM is set, else "alacritty" and "-e"; the cleaned
   command is the last word, and one word: splitting the joined string gives
   the same words back. *)
C14_Cleaned(e) == ReplaceExecOpt(TrimChars(Chars(e.exec)))

C14_Prefix(o) ==
    IF o.terminal_command # None
    THEN ShlexSplit(Chars(o.terminal_command[1])).words
    ELSE IF o.TERM # None THEN <<Chars(o.TERM[1]), <<"-", "e">>>>
    ELSE <<<<"a", "l", "a", "c", "r", "i", "t", "t", "y">>, <<"-", "e">>>>

C14_Wrapped(e, sh) ==
    /\ sh.argv = C14_Prefix(sh.options) \o <<C14_Cleaned(e)>>
    /\ sh.command = ShlexJoin(sh.argv)
    /\ ShlexSplit(sh.command) = [ok |-> TRUE, words |-> sh.argv]
    /\ sh.argv[Len(sh.argv)] = C14_Cleaned(e)

C14_TerminalWrapping ==
    (/\ pc[1] = "spawn"
     /\ entry[1] # None
     /\ entry[1][1].desktop
     /\ entry[1][1].terminal) => C14_Wrapped(entry[1][1], shell[1][1])

\* a terminal application is launched with --terminal-command and $TERM both
\* set: the words of the option come first, the command is one quoted word
C14_Witness ==
    /\ pc[1] = "spawn"
    /\ entry[1] # None
    /\ entry[1][1].terminal
    /\ entry[1][1].exec = "apple --edit %u"
    /\ shell[1][1].options = Options(Some("kitty --hold"), Some("foo"), Some(""))
    /\ shell[1][1].command
         = <<"k", "i", "t", "t", "y", " ", "-", "-", "h", "o", "l", "d", " ",
             "'", "a", "p", "p", "l", "e", " ", "-", "-", "e", "d", "i", "t",
             "'">>

----------------------------------------------------------------------------
(* C15: launching a desktop entry removes from its trimmed command every
   percent sign that a word character follows, with that word character and
   with the whole run of whitespace, if any, that stands right before the
   percent sign, and keeps every other character in place; launching a bare
   entry removes nothing from its trimmed command. *)
\* a field code begins at place n of s
C15_CodeAt(s, n) ==
    /\ n >= 1
    /\ n < Len(s)
    /\ s[n] = "%"
    /\ IsWord(s[n + 1])

\* place n of s belongs to a field code or to the whitespace before one
C15_Removed(s, n) ==
    \/ C15_CodeAt(s, n)
    \/ C15_CodeAt(s, n - 1)
    \/ \E c \in (n + 1)..Len(s) :
          /\ C15_CodeAt(s, c)
          /\ \A k \in n..(c - 1) : IsSpace(s[k])

RECURSIVE C15_KeptFrom(_, _)
C15_KeptFrom(s, n) ==
    IF n > Len(s) THEN <<>>
    ELSE (IF C15_Removed(s, n) THEN <<>> ELSE <<s[n]>>) \o C15_KeptFrom(s, n + 1)

\* the cleaned command as _exec or the terminal words get it
C15_Cleaned(sh) ==
    IF sh.argv = <<>> THEN sh.command ELSE sh.argv[Len(sh.argv)]

C15_FieldCodesStripped ==
    (pc[1] = "spawn" /\ entry[1] # None) =>
        IF entry[1][1].desktop
        THEN C15_Cleaned(shell[1][1])
               = C15_KeptFrom(TrimChars(Chars(entry[1][1].exec)), 1)
        ELSE shell[1][1].command = TrimChars(Chars(entry[1][1].exec))

\* a desktop entry whose command holds a field code after a space and one
\* after "=" is launched without both
C15_Witness ==
    /\ pc[1] = "spawn"
    /\ entry[1] # None
    /\ entry[1][1].exec = "mid %f --out=%u"
    /\ shell[1][1].command = <<"m", "i", "d", " ", "-", "-", "o", "u", "t", "=">>

(* C15 as stated: only a percent sign that whitespace precedes, with one
   word character after it, is removed with that whitespace. *)
C15_PrefixedCodeAt(s, n) == C15_CodeAt(s, n) /\ n > 1 /\ IsSpace(s[n - 1])

C15_PrefixedRemoved(s, n) ==
    \/ C15_PrefixedCodeAt(s, n)
    \/ C15_PrefixedCodeAt(s, n - 1)
    \/ \E c \in (n + 1)..Len(s) :
          /\ C15_PrefixedCodeAt(s, c)
          /\ \A k \in n..(c - 1) : IsSpace(s[k])

RECURSIVE C15_PrefixedKeptFrom(_, _)
C15_PrefixedKeptFrom(s, n) ==
    IF n > Len(s) THEN <<>>
    ELSE (IF C15_PrefixedRemoved(s, n) THEN <<>> ELSE <<s[n]>>)
           \o C15_PrefixedKeptFrom(s, n + 1)

C15_OnlyPrefixedStripped ==
    (pc[1] = "spawn" /\ entry[1] # None) =>
        IF entry[1][1].desktop
        THEN C15_Cleaned(shell[1][1])
               = C15_PrefixedKeptFrom(TrimChars(Chars(entry[1][1].exec)), 1)
        ELSE shell[1][1].command = TrimChars(Chars(entry[1][1].exec))

----------------------------------------------------------------------------
(* C18: when the selection returns a typed query and no item, the trimmed
   query is what _exec gets, and neither the step to the spawn nor the spawn
   changes the catalog in memory, any count or the history file, also when
   the query is the name or the path of an entry. *)
C18_Typed == { TrimChars(Chars(q)) : q \in Queries }

C18_RawStep ==
    (pc[1] = "select" /\ pc'[1] = "spawn" /\ cmd'[1][1].via = "execute_raw") =>
        /\ shell'[1][1].command \in C18_Typed
        /\ shell'[1][1].command = TrimChars(shell'[1][1].command)
        /\ entry'[1] = None
        /\ entries' = entries
        /\ items' = items
        /\ cache' = cache
        /\ recorded' = recorded

C18_RawSpawn ==
    (pc[1] = "spawn" /\ cmd[1][1].via = "execute_raw") =>
        (cache' = cache /\ recorded' = recorded)

C18_RawQueryNoCount == [][C18_RawStep /\ C18_RawSpawn]_vars

\* the typed query " x " is launched as "x", the name of an entry of the
\* catalog, whose count is as the build saved it
C18_Witness ==
    /\ pc[1] = "spawn"
    /\ entry[1] = None
    /\ shell[1][1].command = <<"x">>
    /\ ContainsKey(entries[1], "/bin/x")
    /\ Get(entries[1], "/bin/x")[1].name = "x"
    /\ Get(entries[1], "/bin/x")[1].count = 0
    /\ cache = save_history(entries[1])

----------------------------------------------------------------------------
(* C19: a run whose selection is aborted ends with the abort status, which
   is not the status of a failed selection; nothing is spawned and no count
   changes; the history file is, before and after, the catalog this run's
   build returned, saved before the selection began. *)
C19_AbortStep ==
    (/\ pc'[1] = "exit"
     /\ exitCode'[1] = AbortStatus
     /\ <<pc[1], exitCode[1]>> # <<pc'[1], exitCode'[1]>>) =>
        /\ pc[1] = "select"
        /\ exitCode'[1] # ErrorStatus
        /\ cache = save_history(entries[1])
        /\ cache' = cache
        /\ recorded' = recorded
        /\ shell[1] = None /\ shell'[1] = None
        /\ cmd[1] = None /\ cmd'[1] = None

C19_AbortKeepsCache == [][C19_AbortStep]_vars

\* a run was aborted and the history file holds the two entries its build
\* saved, no count changed
C19_Witness ==
    /\ pc[1] = "exit"
    /\ exitCode[1] = AbortStatus
    /\ cache.valid
    /\ Keys(Hist) = {"/app/a.desktop", "/bin/x"}
    /\ \A p \in Keys(Hist) : Get(Hist, p)[1].count = 0

----------------------------------------------------------------------------
(* C20: the sequence sent to the selection holds the entries of the catalog,
   the greater count first and entries of equal count in their catalog
   order; the catalog in memory keeps its own order, the order the build
   saved, and a launch saves the catalog in that same order. *)
KeySeq(m) == [n \in 1..Len(m) |-> m[n].k]

C20_Presented(its, m) ==
    /\ Len(its) = Len(m)
    /\ \A n \in 1..Len(m) : \E a \in 1..Len(its) : its[a] = m[n]
    /\ \A a \in 1..Len(its) : \A b \in 1..Len(its) :
          a < b =>
            \/ its[a].v.count > its[b].v.count
            \/ /\ its[a].v.count = its[b].v.count
               /\ IndexOf(m, its[a].k) < IndexOf(m, its[b].k)

C20_AtSelection ==
    pc[1] = "select" =>
        /\ C20_Presented(items[1], entries[1])
        /\ cache = save_history(entries[1])

C20_LaunchKeepsOrder ==
    (pc[1] = "select" /\ pc'[1] = "spawn" /\ entry'[1] # None) =>
        /\ KeySeq(entries'[1]) = KeySeq(entries[1])
        /\ KeySeq(FromToml(cache'.doc)) = KeySeq(entries[1])

C20_PresentationOrder == [] C20_AtSelection /\ [][C20_LaunchKeepsOrder]_vars

\* an entry is launched from a selection that showed the catalog in another
\* order: the launched bare entry first, though the catalog and the history
\* file have the desktop entry first
C20_Witness ==
    /\ pc[1] = "spawn"
    /\ entry[1] # None
    /\ Len(items[1]) >= 2
    /\ KeySeq(items[1]) # KeySeq(entries[1])
    /\ items[1][1].v.count = 1
    /\ ~items[1][1].v.desktop
    /\ entries[1][1].v.desktop
    /\ KeySeq(Hist) = KeySeq(entries[1])

----------------------------------------------------------------------------
(* C22: a build that returns a catalog leaves the history file with the
   paths that gave an entry in this scan and no other: what the file held
   for a path the scan did not give is gone, its count with it. *)
C22_Scanned ==
    Keys(load_desktop_entries(Hist, fs, unreadable).map)
        \cup Keys(load_bin_entries(Hist, fs, unreadable, PATH).map)

C22_BuildStep ==
    (BuildStep /\ pc'[1] = "select") =>
        /\ cache'.valid
        /\ Keys(FromToml(cache'.doc)) = C22_Scanned
        /\ Keys(entries'[1]) = C22_Scanned
        /\ \A p \in Keys(Hist) \ C22_Scanned :
              ~ContainsKey(FromToml(cache'.doc), p)

C22_CacheKeysAreScanned == [][C22_BuildStep]_vars

\* a build has dropped a launched entry from the history file: its
\* descriptor is there but gives no entry
C22_Witness ==
    /\ pc[1] = "select"
    /\ recorded["/app/a.desktop"] = 1
    /\ fs["/app/a.desktop"].kind = "file"
    /\ ~ContainsKey(Hist, "/app/a.desktop")
    /\ ContainsKey(Hist, "/bin/x")

----------------------------------------------------------------------------
(* C23: a launch of a selected entry writes the history file the build had
   saved with one change, the count of the selected entry, greater by 1: the
   same paths in the same order, every other field of every entry as it was;
   and every path the selection can return is a key of the catalog in
   memory, so that execute always finds it. *)
\* m2 is m1 but for the count of p, greater by 1
C23_OnlyCountOf(m1, m2, p) ==
    /\ Len(m2) = Len(m1)
    /\ \A n \in 1..Len(m1) :
          /\ m2[n].k = m1[n].k
          /\ IF m1[n].k = p
             THEN /\ m2[n].v.count = m1[n].v.count + 1
                  /\ [m2[n].v EXCEPT !.count = 0] = [m1[n].v EXCEPT !.count = 0]
             ELSE m2[n].v = m1[n].v

C23_LaunchStep ==
    (pc[1] = "select" /\ cache' # cache) =>
        /\ cache = save_history(entries[1])
        /\ cache'.valid
        /\ \E n \in 1..Len(items[1]) :
              C23_OnlyCountOf(Hist, FromToml(cache'.doc), items[1][n].v.path)
        /\ pc'[1] = "spawn" =>
              /\ entry'[1] # None
              /\ C23_OnlyCountOf(entries[1], entries'[1], entry'[1][1].path)
              /\ FromToml(cache'.doc) = entries'[1]

C23_PathFound ==
    pc[1] = "select" =>
        /\ \A n \in 1..Len(items[1]) :
              ContainsKey(entries[1], items[1][n].v.path)
        /\ \A n \in 1..Len(entries[1]) : entries[1][n].v.path = entries[1][n].k

C23_LaunchOnlyCounts == [][C23_PathFound /\ C23_LaunchStep]_vars

\* the second of three entries was launched: the history file has the three
\* in their order and the count of that one alone is 1
C23_Witness ==
    /\ pc[1] = "spawn"
    /\ entry[1] # None
    /\ Len(Hist) = 3
    /\ entry[1][1].path = Hist[2].k
    /\ Hist[1].v.count = 0
    /\ Hist[2].v.count = 1
    /\ Hist[3].v.count = 0


----------------------------------------------------------------------------
\* C21: when two launchers overlap on one history file, the file after both
\* have finished is the whole in-memory catalog of the launcher that saved
\* last: the write that ends the save at a launch, made when the other
\* launcher has already saved at its own launch, leaves in the file exactly
\* the catalog of the launcher that writes, and nothing the other one had put
\* there
C21_LastSave(i, k) ==
    (/\ pc[i] = "exec_write" /\ pc'[i] # pc[i]
     /\ pc[k] = "spawn" /\ entry[k] # None)
        => cache' = save_history(entries[i])

C21_LastWriterWins == [][C21_LastSave(1, 2) /\ C21_LastSave(2, 1)]_vars

====
